---- MODULE Spec2Model ----
(***************************************************************************)
(* mcputil.Group (src/src/mcputil/group.py): a named set of MCP Clients    *)
(* with a tools cache protected by one aiorwlock.RWLock.  Every caller is  *)
(* an asyncio coroutine; an action is the code a coroutine runs between    *)
(* two suspension points.                                                  *)
(***************************************************************************)
EXTENDS Integers, Sequences, FiniteSets, TLC

VARIABLES
    clients,      \* Group._clients: connection state of each server's Client
    tools_cache,  \* Group._tools_cache: server name -> catalog entry
    cache_lock,   \* Group._cache_lock: the aiorwlock.RWLock
    task,         \* the frame of each caller coroutine
    sub,          \* the per-Client coroutines a caller has handed to asyncio.gather / await
    result,       \* what each caller's last call returned or raised
    rounds,       \* number of completed discovery round-trips (identity of a catalog)
    disc,         \* per server: discoveries completed since its entry was last removed
    invocations,  \* number of Tool.call dispatches
    started       \* number of Group calls issued so far

vars == <<clients, tools_cache, cache_lock, task, sub, result, rounds, disc,
          invocations, started>>

(* ---------------------------- bounds ----------------------------------- *)
MaxOps == 3       \* Group calls issued in one behaviour
MaxRounds == 2    \* successful discovery round-trips in one behaviour
MaxSteps == 2     \* progress steps one tool call is asked to report

Procs == {"c1", "c2"}

(* ---------------------------- the Group -------------------------------- *)
\* Group(math=..., progress=...): dict order of self._clients
ServerOrder == <<"math", "progress">>
Servers == {ServerOrder[i] : i \in 1..Len(ServerOrder)}
UnknownServer == "unknown_server"
NoneArg == "None"
ServerArgs == Servers \cup {UnknownServer}
ToolArgs == {"add", "sub"}

\* what one discovery round-trip on a server can return (the server may change it)
CatalogsOf(s) ==
    IF s = "math" THEN {<<"add">>, <<"add", "sub">>}
    ELSE {<<"long_running_task">>}

Range(f) == {f[i] : i \in 1..Len(f)}

Absent == [present |-> FALSE, names |-> <<>>, round |-> 0]
EmptyCache == [s \in Servers |-> Absent]

\* the keys of {tool.name: tool for tool in tools}, in insertion order: a name
\* that occurs again keeps its first position
RECURSIVE DictKeys(_)
DictKeys(tools) ==
    IF tools = <<>> THEN <<>>
    ELSE LET front == DictKeys(SubSeq(tools, 1, Len(tools) - 1))
             last == tools[Len(tools)]
         IN  IF last \in Range(front) THEN front ELSE Append(front, last)

\* a dict comprehension that loses the first tool of the list
DictLosesFirstTool(tools, n) == [present |-> TRUE, names |-> Tail(tools), round |-> n]

\* {tool.name: tool for tool in tools}: the entry built from one discovery
ToolsDict(tools, n) == [present |-> TRUE, names |-> DictKeys(tools), round |-> n]

\* self._tools_cache.clear()
Clear(cache) == [s \in Servers |-> Absent]

\* a pop that drops every entry
PopClearsAll(cache, s) == Clear(cache)

\* self._tools_cache.pop(server_name, None)
Pop(cache, s) == [cache EXCEPT ![s] = Absent]

NoSub == [s \in Servers |-> "none"]
AllRun == [s \in Servers |-> "run"]

IdleTask ==
    [op |-> "none", server |-> NoneArg, tool |-> NoneArg, pc |-> "idle", idx |-> 0,
     tools_dict |-> Absent, first |-> NoneArg, floor |-> 0, mark |-> 0,
     since |-> 0, via |-> "none", fresh |-> FALSE, again |-> FALSE,
     scope |-> "none", raised |-> FALSE, cmark |-> [s \in Servers |-> 0],
     closed |-> FALSE, reopened |-> FALSE, params |-> [s \in Servers |-> "none"]]

\* output() has not been called on the Result
NotGot == [called |-> FALSE, raised |-> FALSE, value |-> 0]

\* what a Group call has returned or raised; for a Result of call_tool also the
\* invocation it stands for: the call_id asked for and passed on, the progress
\* steps left and asked, the events pushed and not yet pulled (channel), the
\* events pulled by the consumer of events() (drained), the outcome of output()
NoResult ==
    [kind |-> "none", name |-> NoneArg, valid |-> <<>>, tools |-> <<>>, round |-> 0,
     grouped |-> EmptyCache, failed |-> {}, declared |-> <<>>, stubs |-> {},
     asked |-> "", call_id |-> "", state |-> "none", left |-> 0, total |-> 0,
     channel |-> <<>>, drained |-> <<>>, output |-> 0, got |-> NotGot]

Raise(kind, name, valid) == [NoResult EXCEPT !.kind = kind, !.name = name, !.valid = valid]

(* ---------------------------- aiorwlock -------------------------------- *)
FreeLock == [r_state |-> 0, w_state |-> 0, write_waiters |-> <<>>, read_waiters |-> {}]

\* RWLock._wake_up: one waiting writer first, else every waiting reader
WakeUp(lock) ==
    IF lock.r_state = 0 /\ lock.w_state = 0
    THEN IF lock.write_waiters # <<>>
         THEN [lock EXCEPT !.w_state = 1, !.write_waiters = Tail(@)]
         ELSE [lock EXCEPT !.r_state = Cardinality(lock.read_waiters), !.read_waiters = {}]
    ELSE lock

\* async with self._cache_lock.reader_lock: __aenter__
AcquireRead(lock, p) ==
    IF lock.write_waiters = <<>> /\ lock.w_state = 0
    THEN [lock EXCEPT !.r_state = @ + 1]
    ELSE [lock EXCEPT !.read_waiters = @ \cup {p}]

\* async with self._cache_lock.writer_lock: __aenter__
AcquireWrite(lock, p) ==
    IF lock.r_state = 0 /\ lock.w_state = 0
    THEN [lock EXCEPT !.w_state = 1]
    ELSE [lock EXCEPT !.write_waiters = Append(@, p)]

\* async with self._cache_lock.reader_lock: __aexit__
ReleaseRead(lock) == WakeUp([lock EXCEPT !.r_state = @ - 1])

\* async with self._cache_lock.writer_lock: __aexit__
ReleaseWrite(lock) == WakeUp([lock EXCEPT !.w_state = @ - 1])

\* the coroutines whose acquire has been granted leave the wait queues
Resume(tk, lock) ==
    [q \in Procs |->
        IF tk[q].pc = "w_wait" /\ q \notin Range(lock.write_waiters)
        THEN [tk[q] EXCEPT !.pc = "w_held"]
        ELSE IF tk[q].pc = "r_wait" /\ q \notin lock.read_waiters
        THEN [tk[q] EXCEPT !.pc = "r_held"]
        ELSE tk[q]]

\* a close() returns: no connect() has been issued since
Shut(tk) == [q \in Procs |-> [tk[q] EXCEPT !.reopened = FALSE]]

\* every cache-clearing step ends the epoch of the catalogs obtained before it
EndEpoch(tk) == [q \in Procs |-> [tk[q] EXCEPT !.fresh = FALSE]]

(* ---------------------------- Init ------------------------------------- *)
Init ==
    /\ clients = [s \in Servers |-> "Disconnected"]
    /\ tools_cache = EmptyCache
    /\ cache_lock = FreeLock
    /\ task = [p \in Procs |-> IdleTask]
    /\ sub = [p \in Procs |-> NoSub]
    /\ result = [p \in Procs |-> NoResult]
    /\ rounds = 0
    /\ disc = [s \in Servers |-> 0]
    /\ invocations = 0
    /\ started = 0

\* a caller issues its next Group call once its previous one has returned and the
\* Client coroutines it left behind have finished
CanStart(p) ==
    /\ task[p].pc \in {"idle", "done"}
    /\ \A s \in Servers : sub[p][s] # "run"
    /\ started < MaxOps

\* the newest invalidate_cache() already returned when a call is issued
Floor ==
    LET done == {q \in Procs : task[q].pc = "done" /\ task[q].op = "invalidate_cache"
                                /\ task[q].server = NoneArg}
        marks == {task[q].mark : q \in done} \cup {0}
    IN  CHOOSE m \in marks : \A n \in marks : n <= m

NewTask(p, op, s, t) ==
    [IdleTask EXCEPT !.op = op, !.server = s, !.tool = t, !.fresh = TRUE,
                     !.floor = Floor,
                     !.since = rounds,
                     !.again = (op = "close" /\ task[p].op = "close"),
                     !.closed = task[p].closed,
                     !.reopened = \/ task[p].reopened
                                  \/ op = "connect" /\ \E q \in Procs : task[q].closed]


(* ---------------------------- Group._get_tools ------------------------- *)
\* an error message that lists no server
NoServersListed == <<>>

\* lines 151 and 194: Available servers: list(self._clients.keys())
AvailableServers == ServerOrder

\* lines 154-155: past the server check, ask for the reader lock
Enter(p, t, lock) ==
    LET l2 == AcquireRead(lock, p)
    IN  /\ cache_lock' = l2
        /\ task' = Resume([task EXCEPT ![p] = [t EXCEPT !.pc = "r_wait"]], l2)

\* a lookup that never misses
ToolAlwaysFound(t, e) == TRUE

\* call_tool lines 128-133: tool = tools_dict.get(tool_name)
ToolFound(t, e) == t \in Range(e.names)

\* a loop over the servers that stops one server short
LoopStopsEarly(t) == t.idx + 1 < Len(ServerOrder)

\* get_tools_grouped_by_server lines 99-101: the loop goes on to the next server
HasNext(t) == t.idx < Len(ServerOrder)

\* get_tools lines 87-89: [tool for sublist in grouped.values() for tool in sublist],
\* the dict being in the insertion order of the loop of lines 99-101
RECURSIVE FlattenFrom(_, _)
FlattenFrom(g, i) ==
    IF i > Len(ServerOrder) THEN <<>>
    ELSE g[ServerOrder[i]].names \o FlattenFrom(g, i + 1)

Flatten(g) == FlattenFrom(g, 1)

\* _get_tools returns entry e to its caller, which runs on to its next suspension
Return(p, e, lock, via) ==
    LET t == [task[p] EXCEPT !.tools_dict = e, !.via = via]
        fin == [t EXCEPT !.pc = "done"]
    IN  CASE t.op = "get_tools" ->
                /\ cache_lock' = lock
                /\ task' = Resume([task EXCEPT ![p] = fin], lock)
                /\ result' = [result EXCEPT ![p] =
                        [NoResult EXCEPT !.kind = "tools", !.tools = e.names,
                                         !.round = e.round]]
          [] t.op = "get_tools_grouped_by_server" ->
                LET g == [result[p].grouped EXCEPT ![t.server] = e]
                IN  IF HasNext(t)
                    THEN /\ Enter(p, [t EXCEPT !.idx = @ + 1,
                                               !.server = ServerOrder[t.idx + 1]], lock)
                         /\ result' = [result EXCEPT ![p].grouped = g]
                    ELSE /\ cache_lock' = lock
                         /\ task' = Resume([task EXCEPT ![p] = fin], lock)
                         /\ result' = [result EXCEPT ![p] =
                                [NoResult EXCEPT !.kind = "grouped", !.grouped = g,
                                                 !.tools = Flatten(g)]]
          [] t.op = "call_tool" ->
                /\ cache_lock' = lock
                /\ IF ToolFound(t.tool, e)
                   THEN /\ task' = Resume([task EXCEPT ![p] = [t EXCEPT !.pc = "tool_call"]],
                                          lock)
                        /\ result' = result
                   ELSE /\ task' = Resume([task EXCEPT ![p] = fin], lock)
                        /\ result' = [result EXCEPT ![p] =
                                Raise("ValueError", t.tool, e.names)]

\* get_tools(server_name) with a name: lines 83-85, 149-155
StartGetTools(p, s) ==
    /\ CanStart(p)
    /\ started' = started + 1
    /\ IF s \in Servers
       THEN /\ Enter(p, NewTask(p, "get_tools", s, NoneArg), cache_lock)
            /\ result' = [result EXCEPT ![p] = NoResult]
       ELSE /\ task' = [task EXCEPT ![p] =
                    [NewTask(p, "get_tools", s, NoneArg) EXCEPT !.pc = "done"]]
            /\ result' = [result EXCEPT ![p] = Raise("KeyError", s, AvailableServers)]
            /\ cache_lock' = cache_lock
    /\ UNCHANGED <<clients, tools_cache, sub, rounds, disc, invocations>>

\* get_tools() / get_tools_grouped_by_server(): lines 87, 97-100
StartGetAll(p) ==
    /\ CanStart(p)
    /\ started' = started + 1
    /\ Enter(p, [NewTask(p, "get_tools_grouped_by_server", ServerOrder[1], NoneArg)
                    EXCEPT !.idx = 1], cache_lock)
    /\ result' = [result EXCEPT ![p] = NoResult]
    /\ UNCHANGED <<clients, tools_cache, sub, rounds, disc, invocations>>

\* call_tool(server_name, tool_name): line 127, 149-155
StartCallTool(p, s, t) ==
    /\ CanStart(p)
    /\ started' = started + 1
    /\ IF s \in Servers
       THEN /\ Enter(p, NewTask(p, "call_tool", s, t), cache_lock)
            /\ result' = [result EXCEPT ![p] = NoResult]
       ELSE /\ task' = [task EXCEPT ![p] =
                    [NewTask(p, "call_tool", s, t) EXCEPT !.pc = "done"]]
            /\ result' = [result EXCEPT ![p] = Raise("KeyError", s, AvailableServers)]
            /\ cache_lock' = cache_lock
    /\ UNCHANGED <<clients, tools_cache, sub, rounds, disc, invocations>>

IsLookup(t) == t.op \in {"get_tools", "get_tools_grouped_by_server", "call_tool"}

\* a populate-on-miss that takes the shared side of the lock
PopulateUnderReaderLock(lock, p) == AcquireRead(lock, p)

\* line 161: async with self._cache_lock.writer_lock, after the miss
PopulateLock(lock, p) == AcquireWrite(lock, p)

\* a reader-lock check that never finds the entry
ReaderNeverHits(cache, s) == FALSE

\* lines 156-158: if server_name in self._tools_cache, under the reader lock
CachedUnderReader(cache, s) == cache[s].present

\* a miss that asks for the writer lock while still inside the reader-lock block
ReaderLockKeptOnMiss(lock) == lock

\* lines 155-161: the reader-lock block has been left before the writer lock is
\* asked for
LockAfterMiss(lock) == ReleaseRead(lock)

\* lines 155-161: look the server up under the reader lock; on a miss give the
\* reader lock back and ask for the writer lock
ReadCache(p) ==
    /\ task[p].pc = "r_held"
    /\ LET e == tools_cache[task[p].server]
           l1 == ReleaseRead(cache_lock)
       IN  IF CachedUnderReader(tools_cache, task[p].server)
           THEN Return(p, e, l1, "reader")
           ELSE LET l2 == PopulateLock(LockAfterMiss(cache_lock), p)
                IN  /\ cache_lock' = l2
                    /\ task' = Resume([task EXCEPT ![p].pc = "w_wait"], l2)
                    /\ result' = result
    /\ UNCHANGED <<clients, tools_cache, sub, rounds, disc, invocations, started>>

\* a populate-on-miss without the double-check
NoDoubleCheck(cache, s) == FALSE

\* lines 163-165: the double-check under the writer lock
CachedUnderWriter(cache, s) == cache[s].present

\* a discovery that gives the writer lock back while it awaits the Client
LockReleasedForDiscovery(lock) == ReleaseWrite(lock)

\* lines 161-169: await client.get_tools() sits inside the writer-lock block
LockDuringDiscovery(lock) == lock

\* lines 161-169: holding the writer lock, return a now-cached entry or start discovery
DoubleCheck(p) ==
    /\ task[p].pc = "w_held"
    /\ IsLookup(task[p])
    /\ IF CachedUnderWriter(tools_cache, task[p].server)
       THEN Return(p, tools_cache[task[p].server], ReleaseWrite(cache_lock), "double_check")
       ELSE LET l1 == LockDuringDiscovery(cache_lock)
            IN  /\ cache_lock' = l1
                /\ task' = Resume([task EXCEPT ![p].pc = "discover"], l1)
                /\ result' = result
    /\ UNCHANGED <<clients, tools_cache, sub, rounds, disc, invocations, started>>

\* Client.get_tools() can complete a discovery round-trip only while connected
CanDiscover(s) == clients[s] = "Connected"

\* lines 169-173: client.get_tools() came back; populate and return
Discover(p) ==
    /\ task[p].pc = "discover"
    /\ CanDiscover(task[p].server)
    /\ rounds < MaxRounds
    /\ \E cat \in CatalogsOf(task[p].server) :
         LET s == task[p].server
             e == ToolsDict(cat, rounds + 1)
         IN  /\ tools_cache' = [tools_cache EXCEPT ![s] = e]
             /\ rounds' = rounds + 1
             /\ disc' = [disc EXCEPT ![s] = @ + 1]
             /\ Return(p, e, ReleaseWrite(cache_lock), "discovery")
    /\ UNCHANGED <<clients, sub, invocations, started>>

\* a lookup that closes the Client whose discovery failed
ClosesClientOnFailedDiscovery(cl, s) == [cl EXCEPT ![s] = "Disconnected"]

\* lines 168-169: _get_tools neither catches the exception of client.get_tools()
\* nor calls anything else on the Client
ClientsAfterFailedDiscovery(cl, s) == cl

\* an exception of the discovery that leaves the writer lock held
LockKeptAfterFailedDiscovery(lock) == lock

\* lines 161-169: the exception raised at line 169 leaves the async with block,
\* whose __aexit__ releases the writer lock
LockAfterFailedDiscovery(lock) == ReleaseWrite(lock)

\* line 169 raises: the exception leaves the async with (lock released) and the call
DiscoverFails(p) ==
    /\ task[p].pc = "discover"
    /\ LET l1 == LockAfterFailedDiscovery(cache_lock)
       IN  /\ cache_lock' = l1
           /\ task' = Resume([task EXCEPT ![p].pc = "done"], l1)
    /\ result' = [result EXCEPT ![p] =
            [Raise("ConnectionError", task[p].server, <<>>) EXCEPT
                !.grouped = result[p].grouped, !.failed = {task[p].server}]]
    /\ clients' = ClientsAfterFailedDiscovery(clients, task[p].server)
    /\ UNCHANGED <<tools_cache, sub, rounds, disc, invocations, started>>

\* line 135: await tool.call(call_id=call_id, **kwargs)
ToolCall(p) ==
    /\ task[p].pc = "tool_call"
    /\ invocations' = invocations + 1
    /\ task' = [task EXCEPT ![p].pc = "done"]
    /\ result' = [result EXCEPT ![p] =
            [NoResult EXCEPT !.kind = "Result", !.name = task[p].tool,
                             !.round = task[p].tools_dict.round]]
    /\ UNCHANGED <<clients, tools_cache, cache_lock, sub, rounds, disc, started>>


(* ---------------------------- Tool.call and its Result ----------------- *)
\* the call_id values a caller passes to call_tool: none, and the one of
\* examples/group/group.py line 40
CallIds == {"", "call_id_0"}

\* a call_tool that does not pass the caller's call_id on
CallIdDropped(cid) == ""

\* line 135: tool.call(call_id=call_id, **kwargs)
PassedCallId(cid) == cid

\* the progress steps a tool reports when asked for n steps
StepsOf(t, n) == IF t = "long_running_task" THEN n ELSE 0

\* the value a tool returns
ToolValue(t, n) == StepsOf(t, n) + 1

ProgressEvent(cid, k) == [type |-> "ProgressEvent", call_id |-> cid, progress |-> k,
                          output |-> 0]

OutputEvent(cid, v) == [type |-> "OutputEvent", call_id |-> cid, progress |-> 0,
                        output |-> v]

\* line 135 with the invocation spelled out: call_tool(server, tool, call_id=cid,
\* steps=n) forwards to Tool.call and returns its Result, the call still in flight
Dispatch(p, cid, n) ==
    /\ task[p].pc = "tool_call"
    /\ invocations' = invocations + 1
    /\ task' = [task EXCEPT ![p].pc = "done"]
    /\ result' = [result EXCEPT ![p] =
            [NoResult EXCEPT !.kind = "Result", !.name = task[p].tool,
                             !.round = task[p].tools_dict.round,
                             !.asked = cid, !.call_id = PassedCallId(cid),
                             !.state = "Pending",
                             !.left = StepsOf(task[p].tool, n),
                             !.total = StepsOf(task[p].tool, n)]]
    /\ UNCHANGED <<clients, tools_cache, cache_lock, sub, rounds, disc, started>>

\* a call_tool that drops the server's catalog when its invocation fails
CatalogDroppedOnFailedCall(cache, s) == [cache EXCEPT ![s] = Absent]

\* line 135: call_tool only awaits tool.call and lets its exception through; the
\* cache is not touched after line 127
CacheAfterFailedCall(cache, s) == cache

\* line 135: tool.call raises and the exception propagates out of call_tool
DispatchFails(p) ==
    /\ task[p].pc = "tool_call"
    /\ task' = [task EXCEPT ![p].pc = "done"]
    /\ result' = [result EXCEPT ![p] =
            [Raise("InvocationError", task[p].tool, <<>>) EXCEPT
                !.round = task[p].tools_dict.round]]
    /\ tools_cache' = CacheAfterFailedCall(tools_cache, task[p].server)
    /\ UNCHANGED <<clients, cache_lock, sub, rounds, disc, invocations, started>>

\* the remote tool reports one step of progress; the event reaches the Result
\* only if the call carries a non-empty call_id
ToolProgress(p) ==
    /\ result[p].kind = "Result" /\ result[p].state = "Pending"
    /\ result[p].left > 0
    /\ result' = [result EXCEPT
            ![p].left = @ - 1,
            ![p].channel = IF result[p].call_id # ""
                           THEN Append(@, ProgressEvent(result[p].call_id,
                                            result[p].total - result[p].left + 1))
                           ELSE @]
    /\ UNCHANGED <<clients, tools_cache, cache_lock, task, sub, rounds, disc,
                   invocations, started>>

\* the remote tool returns: Pending -> Completed(output), and the OutputEvent ends
\* the stream
ToolOutput(p) ==
    /\ result[p].kind = "Result" /\ result[p].state = "Pending"
    /\ result[p].left = 0
    /\ LET v == ToolValue(result[p].name, result[p].total)
       IN  result' = [result EXCEPT
                ![p].state = "Completed", ![p].output = v,
                ![p].channel = Append(@, OutputEvent(result[p].call_id, v))]
    /\ UNCHANGED <<clients, tools_cache, cache_lock, task, sub, rounds, disc,
                   invocations, started>>

\* the remote tool or the transport fails: Pending -> Failed, and the stream ends
\* with no OutputEvent
ToolFails(p) ==
    /\ result[p].kind = "Result" /\ result[p].state = "Pending"
    /\ result' = [result EXCEPT ![p].state = "Failed"]
    /\ UNCHANGED <<clients, tools_cache, cache_lock, task, sub, rounds, disc,
                   invocations, started>>

\* async for event in result.events(): the consumer pulls the next event
NextEvent(p) ==
    /\ result[p].kind = "Result"
    /\ result[p].channel # <<>>
    /\ result' = [result EXCEPT ![p].drained = Append(@, Head(result[p].channel)),
                                ![p].channel = Tail(@)]
    /\ UNCHANGED <<clients, tools_cache, cache_lock, task, sub, rounds, disc,
                   invocations, started>>

\* await result.output(): resumes once the invocation is Completed or Failed,
\* with the output value or the failure
Output(p) ==
    /\ result[p].kind = "Result"
    /\ result[p].state \in {"Completed", "Failed"}
    /\ ~result[p].got.called
    /\ result' = [result EXCEPT ![p].got =
            [called |-> TRUE, raised |-> result[p].state = "Failed",
             value |-> result[p].output]]
    /\ UNCHANGED <<clients, tools_cache, cache_lock, task, sub, rounds, disc,
                   invocations, started>>


(* ---------------------------- Group.invalidate_cache ------------------- *)
\* lines 182-184 (no name) and 192-198 (a name): ask for the writer lock
StartInvalidate(p, s) ==
    /\ CanStart(p)
    /\ started' = started + 1
    /\ result' = [result EXCEPT ![p] =
            IF s \in Servers \cup {NoneArg} THEN NoResult
            ELSE Raise("KeyError", s, AvailableServers)]
    /\ IF s \in Servers \cup {NoneArg}
       THEN LET l2 == AcquireWrite(cache_lock, p)
            IN  /\ cache_lock' = l2
                /\ task' = Resume([task EXCEPT ![p] =
                        [NewTask(p, "invalidate_cache", s, NoneArg) EXCEPT !.pc = "w_wait"]],
                        l2)
       ELSE /\ task' = [task EXCEPT ![p] =
                    [NewTask(p, "invalidate_cache", s, NoneArg) EXCEPT !.pc = "done"]]
            /\ cache_lock' = cache_lock
    /\ UNCHANGED <<clients, tools_cache, sub, rounds, disc, invocations>>

\* an invalidation that forgets the Group's own cache
InvalidatesNothing(cache, s) == cache

\* lines 185 and 199: what invalidate_cache removes from the cache
Invalidated(cache, s) == IF s = NoneArg THEN Clear(cache) ELSE Pop(cache, s)

\* an invalidation that awaits its Client inside the async with
LockKeptAfterInvalidate(lock) == lock

\* lines 184-190 and 198-201: the lock the call holds once it awaits its Client(s)
LockAfterInvalidate(lock) == ReleaseWrite(lock)

\* an invalidation that always goes to every Client
InvalidateEveryClient(s) == Servers

\* lines 187-190 (every Client) and 201 (self._clients[server_name]): the Clients
\* whose invalidate_cache() is awaited
InvalidateTargets(s) == IF s = NoneArg THEN Servers ELSE {s}

\* lines 184-190 and 198-201: remove under the writer lock, release it, then hand
\* invalidate_cache() of every Client (of the one Client) to the event loop
InvalidateClear(p) ==
    /\ task[p].pc = "w_held"
    /\ task[p].op = "invalidate_cache"
    /\ LET s == task[p].server
           l1 == LockAfterInvalidate(cache_lock)
       IN  /\ tools_cache' = Invalidated(tools_cache, s)
           /\ disc' = [x \in Servers |-> IF s = NoneArg \/ s = x THEN 0 ELSE disc[x]]
           /\ cache_lock' = l1
           /\ task' = Resume(EndEpoch([task EXCEPT ![p].pc = "gather",
                                                   ![p].mark = rounds]), l1)
           /\ sub' = [sub EXCEPT ![p] =
                    [x \in Servers |-> IF x \in InvalidateTargets(s) THEN "run" ELSE "none"]]
    /\ UNCHANGED <<clients, result, rounds, invocations, started>>

\* Client.invalidate_cache(): a hook that touches nothing of the Group; cmark notes
\* how many discovery round-trips had completed when the hook finished
ClientInvalidate(p, s) ==
    /\ task[p].op = "invalidate_cache"
    /\ sub[p][s] = "run"
    /\ sub' = [sub EXCEPT ![p][s] = "ok"]
    /\ task' = [task EXCEPT ![p].cmark[s] = rounds]
    /\ UNCHANGED <<clients, tools_cache, cache_lock, result, rounds, disc,
                   invocations, started>>

\* lines 190 and 201: every awaited Client.invalidate_cache() is done
InvalidateReturn(p) ==
    /\ task[p].pc = "gather"
    /\ task[p].op = "invalidate_cache"
    /\ \A s \in Servers : sub[p][s] # "run"
    /\ task' = [task EXCEPT ![p].pc = "done"]
    /\ result' = [result EXCEPT ![p].kind = "ok"]
    /\ UNCHANGED <<clients, tools_cache, cache_lock, sub, rounds, disc, invocations,
                   started>>

(* ---------------------------- Group.connect ---------------------------- *)
\* lines 41-46: one client.connect() per Client, handed to asyncio.gather
StartConnect(p) ==
    /\ CanStart(p)
    /\ started' = started + 1
    /\ task' = [task EXCEPT ![p] =
            [NewTask(p, "connect", NoneArg, NoneArg) EXCEPT !.pc = "gather"]]
    /\ sub' = [sub EXCEPT ![p] = AllRun]
    /\ result' = [result EXCEPT ![p] = NoResult]
    /\ UNCHANGED <<clients, tools_cache, cache_lock, rounds, disc, invocations>>

\* Client.connect() succeeds
ClientConnect(p, s) ==
    /\ task[p].op = "connect"
    /\ sub[p][s] = "run"
    /\ sub' = [sub EXCEPT ![p][s] = "ok"]
    /\ clients' = [clients EXCEPT ![s] = "Connected"]
    /\ UNCHANGED <<tools_cache, cache_lock, task, result, rounds, disc, invocations,
                   started>>

\* Client.connect() raises; asyncio.gather keeps the first exception it is given
ClientConnectFails(p, s) ==
    /\ task[p].op = "connect"
    /\ sub[p][s] = "run"
    /\ sub' = [sub EXCEPT ![p][s] = "err"]
    /\ task' = [task EXCEPT ![p].first = IF @ = NoneArg THEN s ELSE @]
    /\ UNCHANGED <<clients, tools_cache, cache_lock, result, rounds, disc, invocations,
                   started>>

\* line 46: await asyncio.gather(*tasks) is ready to resume connect()
ConnectGatherReady(sb) ==
    \/ \E s \in Servers : sb[s] = "err"
    \/ \A s \in Servers : sb[s] = "ok"

\* line 46: connect() resumes from the gather: the first exception propagates out of
\* connect(), or every Client connected and connect() asks for the writer lock
ConnectGather(p) ==
    /\ task[p].pc = "gather"
    /\ task[p].op = "connect"
    /\ ConnectGatherReady(sub[p])
    /\ IF \E s \in Servers : sub[p][s] = "err"
       THEN /\ task' = [task EXCEPT ![p].pc = "done"]
            /\ result' = [result EXCEPT ![p] =
                    [Raise("ConnectionError", task[p].first, <<>>) EXCEPT
                        !.failed = {task[p].first}]]
            /\ cache_lock' = cache_lock
       ELSE LET l2 == AcquireWrite(cache_lock, p)
            IN  /\ cache_lock' = l2
                /\ task' = Resume([task EXCEPT ![p].pc = "w_wait"], l2)
                /\ result' = result
    /\ UNCHANGED <<clients, tools_cache, sub, rounds, disc, invocations, started>>

\* lines 49-50: clear the cache under the writer lock and return (inside
\* __aenter__, lines 30-32: return self, and the body of the async with begins)
ConnectClear(p) ==
    /\ task[p].pc = "w_held"
    /\ task[p].op = "connect"
    /\ LET l1 == ReleaseWrite(cache_lock)
       IN  /\ cache_lock' = l1
           /\ task' = Resume(EndEpoch([task EXCEPT ![p].pc =
                            IF task[p].scope = "enter" THEN "body" ELSE "done"]), l1)
    /\ tools_cache' = Clear(tools_cache)
    /\ disc' = [x \in Servers |-> 0]
    /\ result' = [result EXCEPT ![p].kind = "ok"]
    /\ UNCHANGED <<clients, sub, rounds, invocations, started>>

(* ---------------------------- Group.close ------------------------------ *)
\* lines 54-59: one client.close() per Client, handed to asyncio.gather
StartClose(p) ==
    /\ CanStart(p)
    /\ started' = started + 1
    /\ task' = [task EXCEPT ![p] =
            [NewTask(p, "close", NoneArg, NoneArg) EXCEPT !.pc = "gather"]]
    /\ sub' = [sub EXCEPT ![p] = AllRun]
    /\ result' = [result EXCEPT ![p] = NoResult]
    /\ UNCHANGED <<clients, tools_cache, cache_lock, rounds, disc, invocations>>

\* Client.close() succeeds (a no-op on a Client that is not connected)
ClientClose(p, s) ==
    /\ task[p].op = "close"
    /\ sub[p][s] = "run"
    /\ sub' = [sub EXCEPT ![p][s] = "ok"]
    /\ clients' = [clients EXCEPT ![s] = "Disconnected"]
    /\ UNCHANGED <<tools_cache, cache_lock, task, result, rounds, disc, invocations,
                   started>>

\* Client.close() raises while tearing a connection down
ClientCloseFails(p, s) ==
    /\ task[p].op = "close"
    /\ sub[p][s] = "run"
    /\ clients[s] = "Connected"
    /\ sub' = [sub EXCEPT ![p][s] = "err"]
    /\ \E c \in {"Connected", "Disconnected"} : clients' = [clients EXCEPT ![s] = c]
    /\ UNCHANGED <<tools_cache, cache_lock, task, result, rounds, disc, invocations,
                   started>>

\* a gather without return_exceptions=True: it resumes on the first exception
CloseGatherShortCircuits(sb) ==
    \/ \E s \in Servers : sb[s] = "err"
    \/ \A s \in Servers : sb[s] = "ok"

\* line 59: await asyncio.gather(*tasks, return_exceptions=True) is ready to resume
CloseGatherReady(sb) == \A s \in Servers : sb[s] \in {"ok", "err"}

\* line 59-62: close() resumes from the gather and asks for the writer lock
CloseGather(p) ==
    /\ task[p].pc = "gather"
    /\ task[p].op = "close"
    /\ CloseGatherReady(sub[p])
    /\ LET l2 == AcquireWrite(cache_lock, p)
       IN  /\ cache_lock' = l2
           /\ task' = Resume([task EXCEPT ![p].pc = "w_wait"], l2)
    /\ UNCHANGED <<clients, tools_cache, sub, result, rounds, disc, invocations, started>>

\* a close() that leaves the cache alone
CacheKeptOnClose(cache) == cache

\* line 63: what close() leaves in the cache
ClosedCache(cache) == Clear(cache)

\* lines 62-63: clear the cache under the writer lock and return (inside
\* __aexit__, lines 34-37, which returns None: an exception of the body goes on)
CloseClear(p) ==
    /\ task[p].pc = "w_held"
    /\ task[p].op = "close"
    /\ LET l1 == ReleaseWrite(cache_lock)
       IN  /\ cache_lock' = l1
           /\ task' = Resume(Shut(EndEpoch([task EXCEPT ![p].pc = "done",
                                                        ![p].closed = TRUE])), l1)
    /\ tools_cache' = ClosedCache(tools_cache)
    /\ disc' = [x \in Servers |-> IF tools_cache'[x].present THEN disc[x] ELSE 0]
    /\ result' = [result EXCEPT ![p].kind = IF task[p].raised THEN "BodyError" ELSE "ok"]
    /\ UNCHANGED <<clients, sub, rounds, invocations, started>>

(* ---------------------------- async with Group(...) -------------------- *)
\* examples/group/group.py line 51, group.py lines 30-31: entering the scope runs
\* __aenter__, which awaits connect()
StartScope(p) ==
    /\ CanStart(p)
    /\ started' = started + 1
    /\ task' = [task EXCEPT ![p] =
            [NewTask(p, "connect", NoneArg, NoneArg) EXCEPT !.pc = "gather",
                                                            !.scope = "enter"]]
    /\ sub' = [sub EXCEPT ![p] = AllRun]
    /\ result' = [result EXCEPT ![p] = NoResult]
    /\ UNCHANGED <<clients, tools_cache, cache_lock, rounds, disc, invocations>>

\* the body of the async with finishes or raises; either way the scope is left
\* through __aexit__ (lines 34-37), which awaits close()
ScopeBody(p) ==
    /\ task[p].pc = "body"
    /\ \E r \in BOOLEAN :
         task' = [task EXCEPT ![p].op = "close", ![p].pc = "gather",
                              ![p].scope = "exit", ![p].raised = r]
    /\ sub' = [sub EXCEPT ![p] = AllRun]
    /\ UNCHANGED <<clients, tools_cache, cache_lock, result, rounds, disc, invocations,
                   started>>

(* ---------------------------- mcputil CLI: the generator --------------- *)
\* the one process that runs the generator
Generator == "c1"

\* the keys of one server's entry of mcpServers that decide its transport
ServerConfigs == SUBSET {"command", "url"}

\* cli/__main__.py lines 40-60: "command" makes a Stdio server, else "url" a
\* StreamableHTTP one, else ValueError
parse_single_server(server_config) ==
    IF "command" \in server_config THEN "Stdio"
    ELSE IF "url" \in server_config THEN "StreamableHTTP"
    ELSE "ValueError"

\* cli/gen.py lines 235-245: the entries of params = {...} in the generated
\* group.py, one for each server whose parameters are a StreamableHTTP
generate_group_file(params) ==
    SelectSeq(ServerOrder, LAMBDA s : params[s] = "StreamableHTTP")

\* cli/gen.py lines 325-342: one stub file per tool of every server whose tool list
\* is not empty; the stub calls group.call_tool(server_name, tool.name, ...)
ToolFiles(tools_by_server) ==
    UNION {{<<s, n>> : n \in Range(tools_by_server[s].names)} : s \in Servers}

\* cli/__main__.py lines 98-100 and 225, cli/gen.py lines 303-305: the servers are
\* parsed, a new Group is built from them and its scope is entered
StartGenerate(p, config) ==
    /\ p = Generator
    /\ CanStart(p)
    /\ ~(task[p].op = "get_tools_grouped_by_server" /\ task[p].scope = "enter")
    /\ started' = started + 1
    /\ LET params == [s \in Servers |-> parse_single_server(config[s])]
           bad == {i \in 1..Len(ServerOrder) : params[ServerOrder[i]] = "ValueError"}
       IN  IF bad # {}
           THEN /\ task' = [task EXCEPT ![p] =
                        [NewTask(p, "generate", NoneArg, NoneArg) EXCEPT !.pc = "done"]]
                /\ result' = [result EXCEPT ![p] =
                        Raise("ValueError",
                              ServerOrder[CHOOSE i \in bad : \A j \in bad : i <= j], <<>>)]
                /\ UNCHANGED <<clients, tools_cache, cache_lock, sub, rounds, disc>>
           ELSE /\ task' = [task EXCEPT ![p] =
                        [NewTask(p, "connect", NoneArg, NoneArg) EXCEPT
                            !.pc = "gather", !.scope = "enter", !.params = params]]
                /\ result' = [result EXCEPT ![p] = NoResult]
                /\ sub' = [sub EXCEPT ![p] = AllRun]
                /\ clients' = [s \in Servers |-> "Disconnected"]
                /\ tools_cache' = EmptyCache
                /\ cache_lock' = FreeLock
                /\ rounds' = 0
                /\ disc' = [s \in Servers |-> 0]
    /\ UNCHANGED invocations

\* cli/gen.py line 307: inside the scope, await group.get_tools_grouped_by_server()
GenerateGetTools(p) ==
    /\ task[p].pc = "body"
    /\ task[p].params[ServerOrder[1]] # "none"
    /\ Enter(p, [task[p] EXCEPT !.op = "get_tools_grouped_by_server",
                                !.server = ServerOrder[1], !.idx = 1,
                                !.since = rounds], cache_lock)
    /\ result' = [result EXCEPT ![p] = NoResult]
    /\ UNCHANGED <<clients, tools_cache, sub, rounds, disc, invocations, started>>

\* cli/gen.py lines 310-342: the tools came back; group.py and the stub files are
\* written without a suspension, then the scope is left through __aexit__
GenerateFiles(p) ==
    /\ task[p].op = "get_tools_grouped_by_server"
    /\ task[p].scope = "enter"
    /\ task[p].pc = "done"
    /\ result[p].kind = "grouped"
    /\ result' = [result EXCEPT ![p].kind = "generated",
                                ![p].declared = generate_group_file(task[p].params),
                                ![p].stubs = ToolFiles(result[p].grouped)]
    /\ task' = [task EXCEPT ![p].op = "close", ![p].pc = "gather",
                            ![p].scope = "exit", ![p].raised = FALSE]
    /\ sub' = [sub EXCEPT ![p] = AllRun]
    /\ UNCHANGED <<clients, tools_cache, cache_lock, rounds, disc, invocations, started>>

\* cli/gen.py lines 305-307: get_tools_grouped_by_server raised; the exception
\* leaves the scope through __aexit__ and no file is written
GenerateAborts(p) ==
    /\ task[p].op = "get_tools_grouped_by_server"
    /\ task[p].scope = "enter"
    /\ task[p].pc = "done"
    /\ result[p].kind # "grouped"
    /\ task' = [task EXCEPT ![p].op = "close", ![p].pc = "gather",
                            ![p].scope = "exit", ![p].raised = TRUE]
    /\ sub' = [sub EXCEPT ![p] = AllRun]
    /\ UNCHANGED <<clients, tools_cache, cache_lock, result, rounds, disc, invocations,
                   started>>

(* ---------------------------- specifications -------------------------- *)
\* the steps of a lookup, shared by every specification
Lookup ==
    \/ \E p \in Procs : ReadCache(p)
    \/ \E p \in Procs : DoubleCheck(p)
    \/ \E p \in Procs : Discover(p)
    \/ \E p \in Procs : DiscoverFails(p)

\* the life cycle of a Group from its construction: connect, look up, close
Next ==
    \/ \E p \in Procs, s \in Servers : StartGetTools(p, s)
    \/ \E p \in Procs : StartGetAll(p)
    \/ \E p \in Procs : StartConnect(p)
    \/ \E p \in Procs : StartClose(p)
    \/ Lookup
    \/ \E p \in Procs, s \in Servers : ClientConnect(p, s)
    \/ \E p \in Procs, s \in Servers : ClientConnectFails(p, s)
    \/ \E p \in Procs : ConnectGather(p)
    \/ \E p \in Procs : ConnectClear(p)
    \/ \E p \in Procs, s \in Servers : ClientClose(p, s)
    \/ \E p \in Procs, s \in Servers : ClientCloseFails(p, s)
    \/ \E p \in Procs : CloseGather(p)
    \/ \E p \in Procs : CloseClear(p)

Spec == Init /\ [][Next]_vars

\* the Group inside `async with Group(...) as group:` (examples/group/group.py
\* lines 51-63): connect() has returned, every Client is connected, the cache is cold
InitConnected ==
    /\ clients = [s \in Servers |-> "Connected"]
    /\ tools_cache = EmptyCache
    /\ cache_lock = FreeLock
    /\ task = [p \in Procs |-> IdleTask]
    /\ sub = [p \in Procs |-> NoSub]
    /\ result = [p \in Procs |-> NoResult]
    /\ rounds = 0
    /\ disc = [s \in Servers |-> 0]
    /\ invocations = 0
    /\ started = 0

\* the cache operations of a connected Group
NextCache ==
    \/ \E p \in Procs, s \in ServerArgs : StartGetTools(p, s)
    \/ \E p \in Procs : StartGetAll(p)
    \/ \E p \in Procs, s \in ServerArgs, t \in ToolArgs : StartCallTool(p, s, t)
    \/ \E p \in Procs, s \in ServerArgs \cup {NoneArg} : StartInvalidate(p, s)
    \/ Lookup
    \/ \E p \in Procs : ToolCall(p)
    \/ \E p \in Procs : InvalidateClear(p)
    \/ \E p \in Procs, s \in Servers : ClientInvalidate(p, s)
    \/ \E p \in Procs : InvalidateReturn(p)

SpecCache == InitConnected /\ [][NextCache]_vars

\* every operation of the Group on one connected Group: the cache operations
\* interleaved with connect() and close() (group.py lines 39-201), each lookup
\* naming a configured server
NextMixed ==
    \/ \E p \in Procs, s \in Servers : StartGetTools(p, s)
    \/ \E p \in Procs, s \in Servers : StartCallTool(p, s, "add")
    \/ \E p \in Procs, s \in Servers \cup {NoneArg} : StartInvalidate(p, s)
    \/ \E p \in Procs : StartConnect(p)
    \/ \E p \in Procs : StartClose(p)
    \/ Lookup
    \/ \E p \in Procs : ToolCall(p)
    \/ \E p \in Procs : InvalidateClear(p)
    \/ \E p \in Procs, s \in Servers : ClientInvalidate(p, s)
    \/ \E p \in Procs : InvalidateReturn(p)
    \/ \E p \in Procs, s \in Servers : ClientConnect(p, s)
    \/ \E p \in Procs, s \in Servers : ClientConnectFails(p, s)
    \/ \E p \in Procs : ConnectGather(p)
    \/ \E p \in Procs : ConnectClear(p)
    \/ \E p \in Procs, s \in Servers : ClientClose(p, s)
    \/ \E p \in Procs, s \in Servers : ClientCloseFails(p, s)
    \/ \E p \in Procs : CloseGather(p)
    \/ \E p \in Procs : CloseClear(p)

SpecMixed == InitConnected /\ [][NextMixed]_vars

\* the steps caller p's call takes once it has been issued, the steps of the
\* Client coroutines it awaits included
Progress(p) ==
    \/ ReadCache(p) \/ DoubleCheck(p) \/ Discover(p) \/ DiscoverFails(p)
    \/ ToolCall(p)
    \/ InvalidateClear(p) \/ InvalidateReturn(p)
    \/ \E s \in Servers : ClientInvalidate(p, s)
    \/ ConnectGather(p) \/ ConnectClear(p)
    \/ \E s \in Servers : ClientConnect(p, s) \/ ClientConnectFails(p, s)
    \/ CloseGather(p) \/ CloseClear(p)
    \/ \E s \in Servers : ClientClose(p, s) \/ ClientCloseFails(p, s)

\* the operations contending for the lock: lookups of one server (through
\* call_tool, whose line 127 runs the whole of _get_tools as get_tools does), the
\* blanket invalidate_cache(), connect() and close()
NextLive ==
    \/ \E p \in Procs : StartCallTool(p, "progress", "long_running_task")
    \/ \E p \in Procs : StartInvalidate(p, NoneArg)
    \/ \E p \in Procs : StartConnect(p)
    \/ \E p \in Procs : StartClose(p)
    \/ \E p \in Procs : Progress(p)

\* the event loop runs every coroutine that is ready, and every Client operation
\* comes to an end
SpecLive == InitConnected /\ [][NextLive]_vars /\ \A p \in Procs : WF_vars(Progress(p))

\* scoped use of a Group from its construction: async with group: ... by each
\* caller, with lookups of the other caller in between
NextScope ==
    \/ \E p \in Procs : StartScope(p)
    \/ \E p \in Procs : ScopeBody(p)
    \/ \E p \in Procs, s \in Servers : StartGetTools(p, s)
    \/ Lookup
    \/ \E p \in Procs, s \in Servers : ClientConnect(p, s)
    \/ \E p \in Procs, s \in Servers : ClientConnectFails(p, s)
    \/ \E p \in Procs : ConnectGather(p)
    \/ \E p \in Procs : ConnectClear(p)
    \/ \E p \in Procs, s \in Servers : ClientClose(p, s)
    \/ \E p \in Procs, s \in Servers : ClientCloseFails(p, s)
    \/ \E p \in Procs : CloseGather(p)
    \/ \E p \in Procs : CloseClear(p)

SpecScope == Init /\ [][NextScope]_vars

\* runs of the mcputil command: each parses its servers, builds a Group, reads the
\* tools inside the Group's scope and writes the files
NextGen ==
    \/ \E p \in Procs, config \in [Servers -> ServerConfigs] : StartGenerate(p, config)
    \/ \E p \in Procs : GenerateGetTools(p)
    \/ \E p \in Procs : GenerateFiles(p)
    \/ \E p \in Procs : GenerateAborts(p)
    \/ Lookup
    \/ \E p \in Procs, s \in Servers : ClientConnect(p, s)
    \/ \E p \in Procs, s \in Servers : ClientConnectFails(p, s)
    \/ \E p \in Procs : ConnectGather(p)
    \/ \E p \in Procs : ConnectClear(p)
    \/ \E p \in Procs, s \in Servers : ClientClose(p, s)
    \/ \E p \in Procs, s \in Servers : ClientCloseFails(p, s)
    \/ \E p \in Procs : CloseGather(p)
    \/ \E p \in Procs : CloseClear(p)

SpecGen == Init /\ [][NextGen]_vars

\* calls of long_running_task through Group.call_tool on the connected Group and
\* the draining of their Results (examples/group/group.py lines 37-48)
NextResult ==
    \/ \E p \in Procs : StartCallTool(p, "progress", "long_running_task")
    \/ Lookup
    \/ \E p \in Procs, cid \in CallIds, n \in 0..MaxSteps : Dispatch(p, cid, n)
    \/ \E p \in Procs : DispatchFails(p)
    \/ \E p \in Procs : ToolProgress(p)
    \/ \E p \in Procs : ToolOutput(p)
    \/ \E p \in Procs : ToolFails(p)
    \/ \E p \in Procs : NextEvent(p)
    \/ \E p \in Procs : Output(p)

SpecResult == InitConnected /\ [][NextResult]_vars


(* ---------------------------- properties ------------------------------- *)
\* the catalog caller p has obtained for server s in its current call
Catalog(p, s) ==
    IF task[p].op = "get_tools_grouped_by_server" THEN result[p].grouped[s]
    ELSE IF IsLookup(task[p]) /\ task[p].server = s THEN task[p].tools_dict
    ELSE Absent

\* p obtained s's catalog and no cache-clearing step has run since p's call began
GotInEpoch(p, s) == task[p].fresh /\ Catalog(p, s).present

Waiting(q) == task[q].pc \in {"r_wait", "w_wait"}
Holding(q) == task[q].pc \in {"r_held", "w_held", "discover"}

\* p's call returns or raises in this step
Finishes(p) == task[p].pc # "done" /\ task'[p].pc = "done"

\* this step is taken by p's call or by a Client coroutine p awaits
StepOf(p) ==
    \/ ~Waiting(p) /\ task'[p].pc # task[p].pc
    \/ sub'[p] # sub[p]

\* C1: callers that look server s up with no cache-clearing step in between are
\* served by one discovery: Client.get_tools succeeded at most once for s since
\* its entry was last removed, exactly once as soon as one of them has its catalog,
\* and all of them hold the very catalog that discovery put in the cache.
Coalescing ==
    \A s \in Servers :
        /\ disc[s] <= 1
        /\ \A p \in Procs :
              GotInEpoch(p, s) => disc[s] = 1 /\ Catalog(p, s) = tools_cache[s]
        /\ \A p, q \in Procs :
              GotInEpoch(p, s) /\ GotInEpoch(q, s) => Catalog(p, s) = Catalog(q, s)

\* two callers of the same cold server: one discovered, the other missed under the
\* reader lock and was served by the double-check
CoalescingWitness ==
    \E p, q \in Procs :
        /\ p # q
        /\ task[p].server = task[q].server
        /\ GotInEpoch(p, task[p].server) /\ GotInEpoch(q, task[q].server)
        /\ task[p].via = "discovery" /\ task[q].via = "double_check"
        /\ task[p].pc = "done" /\ task[q].pc = "done"

\* C2: a lookup issued after an invalidate_cache() has returned never obtains a
\* catalog that was discovered before that invalidation cleared the cache.
NoStaleAfterInvalidate ==
    \A q \in Procs :
        IsLookup(task[q]) /\ task[q].tools_dict.present
            => task[q].tools_dict.round > task[q].floor

\* a catalog was cached, invalidate_cache() returned, and a later get_tools got a
\* catalog of a newer discovery
NoStaleWitness ==
    \E q \in Procs :
        /\ task[q].op = "get_tools" /\ task[q].pc = "done"
        /\ task[q].floor > 0
        /\ result[q].kind = "tools" /\ result[q].round > task[q].floor

\* C3: no step of invalidate_cache(S) changes the cache entry of a server T # S;
\* the step that holds the writer lock removes S's entry, every other step of the
\* call leaves the whole cache alone.
InvalidateOneFrame ==
    [][\A p \in Procs :
          (task[p].op = "invalidate_cache" /\ task[p].server \in Servers /\ StepOf(p))
              => /\ \A t \in Servers \ {task[p].server} : tools_cache'[t] = tools_cache[t]
                 /\ task[p].pc = "w_held" => ~tools_cache'[task[p].server].present
                 /\ task[p].pc # "w_held" => tools_cache' = tools_cache]_vars

\* invalidate_cache(S) has returned, S's entry is gone and another server's is kept
InvalidateOneWitness ==
    \E p \in Procs, t \in Servers :
        /\ task[p].op = "invalidate_cache" /\ task[p].server \in Servers \ {t}
        /\ task[p].pc = "done"
        /\ task[p].since > 0
        /\ ~tools_cache[task[p].server].present
        /\ tools_cache[t].present /\ tools_cache[t].round <= task[p].since

\* C4 as stated: a lookup of T never waits for the cache lock while an
\* invalidate_cache(S), S # T, holds it.
NeverWaitsOnInvalidate ==
    \A p, q \in Procs :
        ~ /\ task[p].op = "invalidate_cache" /\ task[p].server \in Servers
          /\ task[p].pc = "w_held"
          /\ IsLookup(task[q]) /\ task[q].server \in Servers \ {task[p].server}
          /\ Waiting(q)

\* C4 amended: invalidate_cache(S) holds the one cache lock of the Group only to
\* remove S's entry; while it awaits S's Client it neither holds nor queues for the
\* lock, and a lookup that is waiting then is waiting for some other coroutine.
InvalidateHoldsLockOnlyToRemove ==
    \A p \in Procs :
        (task[p].op = "invalidate_cache" /\ task[p].pc = "gather")
            => /\ p \notin Range(cache_lock.write_waiters)
               /\ cache_lock.w_state =
                    Cardinality({h \in Procs \ {p} : task[h].pc \in {"w_held", "discover"}})
               /\ \A q \in Procs \ {p} :
                     Waiting(q) => \E h \in Procs \ {p, q} : Holding(h)

\* invalidate_cache(S) still awaits S's Client while a lookup of T # S holds the lock
InvalidateHoldsLockWitness ==
    \E p, q \in Procs :
        /\ task[p].op = "invalidate_cache" /\ task[p].server \in Servers
        /\ task[p].pc = "gather" /\ sub[p][task[p].server] = "run"
        /\ IsLookup(task[q]) /\ task[q].server \in Servers \ {task[p].server}
        /\ Holding(q)

\* C5: call_tool on an unknown server raises at once, naming the server and listing
\* the configured servers, with no discovery, no cache change and no dispatch; when
\* the catalog _get_tools returns lacks the tool, call_tool raises in that same step,
\* naming the tool and listing the names of the server's cached catalog, and
\* dispatches nothing.
NotFoundErrors ==
    [][\A p \in Procs :
          /\ (task'[p].op = "call_tool" /\ task'[p].server \notin Servers
                /\ started' # started /\ \A q \in Procs \ {p} : task'[q] = task[q])
                => /\ task'[p].pc = "done"
                   /\ result'[p].kind = "KeyError"
                   /\ result'[p].name = task'[p].server
                   /\ result'[p].valid = ServerOrder
                   /\ UNCHANGED <<tools_cache, rounds, invocations, cache_lock>>
          /\ (task[p].op = "call_tool" /\ Holding(p) /\ task'[p].tools_dict.present
                /\ task[p].tool \notin Range(tools_cache'[task[p].server].names))
                => /\ task'[p].pc = "done"
                   /\ result'[p].kind = "ValueError"
                   /\ result'[p].name = task[p].tool
                   /\ result'[p].valid = tools_cache'[task[p].server].names
                   /\ invocations' = invocations]_vars

\* one call_tool failed on an unknown server, another on an unknown tool
NotFoundWitness ==
    \E p, q \in Procs :
        /\ task[p].op = "call_tool" /\ result[p].kind = "KeyError"
        /\ task[q].op = "call_tool" /\ result[q].kind = "ValueError"
        /\ result[q].valid # <<>>

\* C6: close() never raises; when it returns every Client has been issued close(),
\* none is still closing and the cache is empty; a close() issued right after a
\* close() by the same caller leaves an empty cache empty and every disconnected
\* Client disconnected.
CloseIdempotent ==
    [][\A p \in Procs :
          /\ (task[p].op = "close" /\ Finishes(p))
                => /\ result'[p].kind = "ok"
                   /\ \A s \in Servers : sub'[p][s] \in {"ok", "err"}
                   /\ tools_cache' = EmptyCache
          /\ (task[p].op = "close" /\ task[p].again /\ StepOf(p))
                => /\ tools_cache = EmptyCache => tools_cache' = EmptyCache
                   /\ \A s \in Servers :
                         clients[s] = "Disconnected" => clients'[s] = "Disconnected"]_vars

\* the second of two close() calls in a row has returned
CloseTwiceWitness ==
    \E p \in Procs :
        /\ task[p].op = "close" /\ task[p].again /\ task[p].pc = "done"
        /\ result[p].kind = "ok"
        /\ \A s \in Servers : sub[p][s] = "ok" /\ clients[s] = "Disconnected"

\* C7 as stated: once connect() has finished, by returning or by raising, no cache
\* entry that existed when it was called is left.
ConnectAlwaysClears ==
    \A p \in Procs :
        (task[p].op = "connect" /\ task[p].pc = "done")
            => \A s \in Servers :
                  tools_cache[s].present => tools_cache[s].round > task[p].since

\* C8 as stated: once connect() has returned or raised, no Client.connect() it
\* issued is still in progress.
ConnectWaitsForAll ==
    \A p \in Procs :
        (task[p].op = "connect" /\ task[p].pc = "done")
            => \A s \in Servers : sub[p][s] # "run"

\* C9 as stated: the error a fan-out raises reports every failed member: connect()
\* every Client whose connect() has failed, get_tools() over all servers every
\* server whose discovery cannot succeed.
FailuresAggregated ==
    [][\A p \in Procs :
          /\ (task[p].op = "connect" /\ Finishes(p)
                /\ result'[p].kind = "ConnectionError")
                => result'[p].failed = {s \in Servers : sub[p][s] = "err"}
          /\ (task[p].op = "get_tools_grouped_by_server" /\ Finishes(p)
                /\ result'[p].kind = "ConnectionError")
                => {s \in Servers : clients[s] = "Disconnected"} \subseteq
                        result'[p].failed]_vars

\* C10: a close() during which some Client.close() raised still returns normally,
\* only after every Client.close() it issued has finished, and with the cache empty.
CloseBestEffort ==
    [][\A p \in Procs :
          (task[p].op = "close" /\ Finishes(p)
                /\ \E s \in Servers : sub[p][s] = "err")
              => /\ result'[p].kind = "ok"
                 /\ \A s \in Servers : sub'[p][s] \in {"ok", "err"}
                 /\ tools_cache' = EmptyCache]_vars

\* close() has returned normally although one Client.close() raised and another succeeded
CloseBestEffortWitness ==
    \E p \in Procs, s, t \in Servers :
        /\ task[p].op = "close" /\ task[p].pc = "done" /\ result[p].kind = "ok"
        /\ sub[p][s] = "err" /\ sub[p][t] = "ok"
        /\ tools_cache = EmptyCache

\* C11: in every reachable state of any interleaving of get_tools, call_tool,
\* invalidate_cache, connect and close, the cache entry of each server is absent or
\* is the complete catalog of one completed discovery round-trip; while a
\* round-trip is still in flight nothing of it is in the cache, and no reader is
\* handed a partial catalog
CacheEntriesWhole ==
    /\ \A s \in Servers :
         \/ tools_cache[s] = Absent
         \/ /\ tools_cache[s].present
            /\ tools_cache[s].names \in CatalogsOf(s)
            /\ tools_cache[s].round \in 1..rounds
    /\ \A s, u \in Servers :
         (s # u /\ tools_cache[s].present /\ tools_cache[u].present)
            => tools_cache[s].round # tools_cache[u].round
    /\ \A p \in Procs :
         /\ task[p].pc = "discover" => tools_cache[task[p].server] = Absent
         /\ result[p].kind = "tools" => result[p].tools \in CatalogsOf(task[p].server)
         /\ \A s \in Servers : result[p].grouped[s].present
                                  => result[p].grouped[s].names \in CatalogsOf(s)

\* a reader is handed the two-tool catalog that a discovery stored whole
CacheEntriesWholeWitness ==
    \E p \in Procs :
        /\ task[p].op = "get_tools" /\ task[p].pc = "done" /\ task[p].via = "reader"
        /\ result[p].tools = <<"add", "sub">>
        /\ tools_cache["math"] = ToolsDict(<<"add", "sub">>, result[p].round)

\* C12: a lookup (get_tools(S), get_tools(), get_tools_grouped_by_server(),
\* call_tool(S, ...)) that holds the cache lock while S's entry is cached returns
\* that entry at once: it issues no Client.get_tools on S, stores nothing, and
\* Client.get_tools is called for S only while S's entry is absent, so S is
\* discovered at most once between two removals of its entry
WarmHitsNoDiscovery ==
    [][\A p \in Procs :
          /\ (IsLookup(task[p]) /\ Holding(p) /\ StepOf(p)
                /\ tools_cache[task[p].server].present)
                => /\ task'[p].pc # "discover"
                   /\ task'[p].tools_dict = tools_cache[task[p].server]
                   /\ UNCHANGED <<tools_cache, rounds, disc>>
          /\ (task[p].pc # "discover" /\ task'[p].pc = "discover")
                => ~tools_cache[task[p].server].present
          /\ \A s \in Servers : disc'[s] > disc[s] => disc[s] = 0
      ]_vars

\* a call_tool that started on a warm cache has been served by the reader-lock
\* check, and its server has been discovered once
WarmHitsWitness ==
    \E p \in Procs :
        /\ task[p].op = "call_tool" /\ task[p].pc = "done" /\ task[p].via = "reader"
        /\ result[p].kind = "Result"
        /\ task[p].since = rounds /\ rounds >= 1
        /\ disc[task[p].server] = 1

\* the coroutines inside async with self._cache_lock.writer_lock
Writers == {p \in Procs : task[p].pc \in {"w_held", "discover"}}

\* the coroutines inside async with self._cache_lock.reader_lock
Readers == {p \in Procs : task[p].pc = "r_held"}

\* C13: lock discipline in any interleaving of get_tools, call_tool,
\* invalidate_cache, connect and close: the lock counts exactly the coroutines
\* inside its two sides; the exclusive side is never held while another coroutine
\* holds the shared or the exclusive side; every step that changes the cache is
\* taken by the coroutine holding the exclusive side; and a lookup obtains its
\* catalog only in a step it takes while holding one of the two sides
LockDiscipline ==
    /\ [](/\ cache_lock.w_state = Cardinality(Writers)
          /\ cache_lock.r_state = Cardinality(Readers)
          /\ Cardinality(Writers) <= 1
          /\ Writers # {} => Readers = {})
    /\ [][/\ tools_cache' # tools_cache
                => \E p \in Writers : StepOf(p) /\ cache_lock.w_state = 1
          /\ \A p \in Procs :
                (IsLookup(task'[p]) /\ task[p].via = "none" /\ task'[p].via # "none")
                    => /\ p \in Writers \cup Readers
                       /\ cache_lock.w_state + cache_lock.r_state > 0
         ]_vars

\* a discovery holds the exclusive side while a call_tool or a close() waits for
\* the lock
LockDisciplineWitness ==
    \E p, q \in Procs :
        /\ task[p].pc = "discover" /\ cache_lock.w_state = 1
        /\ task[q].pc \in {"r_wait", "w_wait"}
        /\ task[q].op \in {"call_tool", "close"}

\* the servers whose lookup a get_tools() / get_tools_grouped_by_server() call
\* has issued so far: the loop of lines 99-100 has reached index idx
Launched(p) == {ServerOrder[i] : i \in 1..task[p].idx}

\* C14: get_tools() with no name / get_tools_grouped_by_server() is a fan-out:
\* while such a call is in flight a lookup has been launched for every owned
\* Client, so that one server's discovery can start before another's has finished
FanOutLookups ==
    \A p \in Procs :
        (task[p].op = "get_tools_grouped_by_server" /\ task[p].pc # "done")
            => Launched(p) = Servers

\* C15: when get_tools_grouped_by_server() has returned normally its result has a
\* key for every configured server, each mapped to a whole catalog of that server;
\* if nothing cleared the cache since the call began, the cache holds exactly those
\* entries; and get_tools() with no name returns the per-server lists concatenated
\* in server order
GroupedComplete ==
    \A p \in Procs :
        (task[p].op = "get_tools_grouped_by_server" /\ task[p].pc = "done"
            /\ result[p].kind = "grouped")
        => /\ \A s \in Servers : /\ result[p].grouped[s].present
                                 /\ result[p].grouped[s].names \in CatalogsOf(s)
           /\ result[p].tools = result[p].grouped["math"].names
                                    \o result[p].grouped["progress"].names
           /\ task[p].fresh => tools_cache = result[p].grouped

\* get_tools() has returned the three tools of the two servers, math's first
GroupedCompleteWitness ==
    \E p \in Procs :
        /\ task[p].op = "get_tools_grouped_by_server" /\ task[p].pc = "done"
        /\ result[p].kind = "grouped" /\ task[p].fresh
        /\ result[p].tools = <<"add", "sub", "long_running_task">>

\* C16: invalidate_cache() with no argument clears the whole cache and calls
\* invalidate_cache() on every owned Client, invalidate_cache(S) with a known S
\* calls it on S's Client and on no other; each such Client call is started once,
\* is never started again during the call, and has finished when the call returns
InvalidatePropagates ==
    [][\A p \in Procs :
          task[p].op = "invalidate_cache" =>
            LET all == task[p].server = NoneArg
                called(s) == all \/ s = task[p].server
            IN  /\ (task[p].pc = "w_held" /\ task'[p].pc = "gather")
                    => /\ \A s \in Servers :
                            sub'[p][s] = IF called(s) THEN "run" ELSE "none"
                       /\ all => tools_cache' = EmptyCache
                /\ (task[p].pc = "gather" /\ task'[p].pc \in {"gather", "done"})
                    => \A s \in Servers :
                         /\ ~called(s) => sub'[p][s] = "none"
                         /\ sub[p][s] = "ok" => sub'[p][s] = "ok"
                         /\ sub'[p][s] # sub[p][s]
                              => sub[p][s] = "run" /\ sub'[p][s] = "ok"
                /\ (task[p].pc = "gather" /\ task'[p].pc = "done")
                    => \A s \in Servers : called(s) => sub[p][s] = "ok"
      ]_vars

\* one caller's invalidate_cache() has returned after calling both Clients, the
\* other's invalidate_cache("math") after calling math's Client alone
InvalidatePropagatesWitness ==
    \E p, q \in Procs :
        /\ task[p].op = "invalidate_cache" /\ task[p].server = NoneArg
        /\ task[p].pc = "done" /\ \A s \in Servers : sub[p][s] = "ok"
        /\ task[q].op = "invalidate_cache" /\ task[q].server = "math"
        /\ task[q].pc = "done"
        /\ sub[q]["math"] = "ok" /\ sub[q]["progress"] = "none"

\* C17: get_tools(name) and invalidate_cache(name) with a name that is not a
\* configured server fail at once with a not-found error that names the requested
\* server and lists the configured servers, and leave the Group as it was: the lock
\* is neither taken nor queued for, no cache entry is added or removed, and no
\* Client is asked to discover, to invalidate, to connect or to close
UnknownServerRejected ==
    [][\A p \in Procs :
          (task'[p].op \in {"get_tools", "invalidate_cache"}
              /\ task'[p].server \notin Servers \cup {NoneArg}
              /\ started' # started /\ \A q \in Procs \ {p} : task'[q] = task[q])
          => /\ task'[p].pc = "done"
             /\ result'[p].kind = "KeyError"
             /\ result'[p].name = task'[p].server
             /\ result'[p].valid = ServerOrder
             /\ UNCHANGED <<tools_cache, cache_lock, clients, sub, rounds, disc,
                            invocations>>
      ]_vars

\* a get_tools and an invalidate_cache have both failed on the unknown server while
\* math's catalog stayed cached
UnknownServerWitness ==
    \E p, q \in Procs :
        /\ task[p].op = "get_tools" /\ result[p].kind = "KeyError"
        /\ task[q].op = "invalidate_cache" /\ result[q].kind = "KeyError"
        /\ result[q].name = UnknownServer
        /\ tools_cache["math"].present

\* the operations of lines 70-201 that only read or edit the cache
CacheOps == {"get_tools", "get_tools_grouped_by_server", "call_tool", "invalidate_cache"}

\* C18: cache-only operations do not change connection state: no step of a
\* get_tools, get_tools_grouped_by_server, call_tool or invalidate_cache call
\* changes the connection state of any Client or starts a Client's connect() or
\* close(); a Client's connection state changes only in a step of that Client's
\* connect() or close() issued by Group.connect() or Group.close()
ConnectionOnlyByConnectClose ==
    [][/\ \A p \in Procs :
            (task'[p].op \in CacheOps /\ (task'[p] # task[p] \/ sub'[p] # sub[p]))
                => /\ clients' = clients
                   /\ \A q \in Procs :
                        task'[q].op \in {"connect", "close"} => sub'[q] = sub[q]
       /\ \A s \in Servers :
            clients'[s] # clients[s]
                => \E p \in Procs : /\ task[p].op \in {"connect", "close"}
                                    /\ sub[p][s] = "run" /\ sub'[p][s] # "run"
      ]_vars

\* after a discovery and an invalidate_cache on the connected Group, a close() has
\* disconnected math's Client and not yet progress's
ConnectionOnlyWitness ==
    \E p, q \in Procs :
        /\ task[p].op = "invalidate_cache" /\ task[p].pc = "done"
        /\ task[q].op = "close" /\ sub[q]["math"] = "ok"
        /\ clients["math"] = "Disconnected" /\ clients["progress"] = "Connected"
        /\ rounds >= 1

\* C19: scoped use of a Group closes on every exit path: whenever a caller has
\* left its async with (the body finished, the body raised, or connect() failed
\* while entering), close() has been issued to every owned Client and has finished
ScopeAlwaysCloses ==
    \A p \in Procs :
        (task[p].scope # "none" /\ task[p].pc = "done")
            => /\ task[p].scope = "exit"
               /\ \A s \in Servers : sub[p][s] \in {"ok", "err"}

\* every event the Result of caller p has been given so far, pulled or not
Events(p) == result[p].drained \o result[p].channel

\* C20: for a call made through Group.call_tool with a non-empty call_id, the
\* Result's event stream carries every progress step the tool has reported as a
\* ProgressEvent of that call_id, in order and strictly before the OutputEvent;
\* an OutputEvent is the last event of the stream and there is exactly one once
\* the call has completed (none if it failed); and output() returns the value
\* that OutputEvent carries
ProgressBeforeOutput ==
    \A p \in Procs :
        (result[p].kind = "Result" /\ result[p].asked # "")
        => LET ev == Events(p)
               n == Len(ev)
               reported == result[p].total - result[p].left
           IN  /\ \A i \in 1..n : ev[i].call_id = result[p].asked
               /\ \A i \in 1..n : ev[i].type = "OutputEvent" => i = n
               /\ n >= reported
               /\ \A i \in 1..reported : ev[i] = ProgressEvent(result[p].asked, i)
               /\ result[p].state = "Completed"
                    => /\ n = result[p].total + 1
                       /\ ev[n].type = "OutputEvent"
               /\ result[p].state # "Completed" => n = reported
               /\ (result[p].got.called /\ ~result[p].got.raised)
                    => /\ ev[n].type = "OutputEvent"
                       /\ result[p].got.value = ev[n].output
               /\ result[p].got.raised => result[p].state = "Failed"

\* scenario of examples/group/group.py lines 37-48: the stream of a call with
\* call_id "call_id_0" has been drained, two ProgressEvents and then the
\* OutputEvent, and output() has returned that event's value
ProgressBeforeOutputWitness ==
    \E p \in Procs :
        /\ result[p].kind = "Result" /\ result[p].asked = "call_id_0"
        /\ result[p].channel = <<>> /\ Len(result[p].drained) = 3
        /\ result[p].drained[1].type = "ProgressEvent"
        /\ result[p].drained[2].type = "ProgressEvent"
        /\ result[p].drained[3].type = "OutputEvent"
        /\ result[p].got.called /\ result[p].got.value = result[p].drained[3].output

\* C21: an invocation failure is scoped to its one Result: in the step in which
\* tool.call raises out of call_tool(S, t, ...) or the remote tool fails a Result,
\* the cache (S's entry and every other), the cache lock and every Client are left
\* as they were, the failing caller neither holds nor waits for the lock, and the
\* frame and the result of every other caller are untouched
InvocationFailureScoped ==
    [][\A p \in Procs :
          (\/ task[p].pc = "tool_call" /\ result'[p].kind = "InvocationError"
           \/ /\ result[p].kind = "Result" /\ result[p].state = "Pending"
              /\ result'[p].kind = "Result" /\ result'[p].state = "Failed")
          => /\ UNCHANGED <<tools_cache, cache_lock, clients, sub, rounds, disc>>
             /\ p \notin Writers \cup Readers
             /\ p \notin Range(cache_lock.write_waiters) \cup cache_lock.read_waiters
             /\ \A q \in Procs \ {p} : task'[q] = task[q] /\ result'[q] = result[q]
      ]_vars

\* one caller's invocation has failed, the catalog its lookup found is still the
\* cached one, and the other caller's later call_tool was served from it
InvocationFailureWitness ==
    \E p, q \in Procs :
        /\ p # q
        /\ task[p].op = "call_tool" /\ task[p].pc = "done"
        /\ \/ result[p].kind = "InvocationError"
           \/ result[p].kind = "Result" /\ result[p].state = "Failed"
        /\ tools_cache[task[p].server] = task[p].tools_dict
        /\ task[p].tools_dict.present
        /\ task[q].op = "call_tool" /\ task[q].via = "reader"
        /\ result[q].kind = "Result" /\ result[q].state = "Completed"
        /\ result[q].round = result[p].round
        /\ task[q].since >= result[p].round

\* the callers whose client.get_tools() round-trip is in flight (line 169)
Discovering == {p \in Procs : task[p].pc = "discover"}

\* C22: discovery is serialized across the whole Group: in every state at most one
\* discovery round-trip is in flight over all servers and its caller holds the
\* exclusive lock alone; as long as it stays in flight the cache of every server
\* is unchanged (nobody populates, invalidates or clears) and no other caller
\* obtains a catalog
DiscoverySerialized ==
    /\ [](/\ Cardinality(Discovering) <= 1
          /\ \A p \in Discovering :
                /\ cache_lock.w_state = 1 /\ cache_lock.r_state = 0
                /\ \A q \in Procs \ {p} : ~Holding(q))
    /\ [][\A p \in Procs :
            (task[p].pc = "discover" /\ task'[p].pc = "discover")
                => /\ tools_cache' = tools_cache
                   /\ rounds' = rounds
                   /\ \A q \in Procs \ {p} :
                        task'[q].via # task[q].via => task'[q].via = "none"
         ]_vars

\* math's discovery is in flight while the other caller's lookup of progress
\* waits for the lock
DiscoverySerializedWitness ==
    \E p, q \in Procs :
        /\ task[p].pc = "discover" /\ task[p].server = "math"
        /\ IsLookup(task[q]) /\ task[q].server = "progress"
        /\ Waiting(q)

\* C23: no deadlock on the cache lock: a caller queued for the exclusive side holds
\* no side of the lock, whoever waits for the lock waits for a coroutine that is
\* inside it, and with a fair event loop and Client operations that come to an end
\* every get_tools, call_tool, invalidate_cache, connect and close call that has
\* been issued returns or raises
NoLockDeadlock ==
    /\ [](/\ \A p \in Range(cache_lock.write_waiters) \cup cache_lock.read_waiters :
                Waiting(p)
          /\ cache_lock.r_state = Cardinality(Readers)
          /\ (cache_lock.write_waiters # <<>> \/ cache_lock.read_waiters # {})
                => Writers \cup Readers # {})
    /\ \A p \in Procs : (task[p].pc \notin {"idle", "done"}) ~> (task[p].pc = "done")

\* a lookup that missed under the shared side is queued for the exclusive side
\* behind another caller's discovery
NoLockDeadlockWitness ==
    \E p, q \in Procs :
        /\ IsLookup(task[p]) /\ task[p].pc = "w_wait"
        /\ p \in Range(cache_lock.write_waiters)
        /\ task[q].pc = "discover"

\* C24: a failed discovery is never cached: in the step in which Client.get_tools
\* raises inside _get_tools(S) the error goes to that caller, the exclusive lock is
\* released (handed to the first waiter, if any), the cache is left as it was with
\* no entry for S, and no round-trip is counted; a caller that then holds the
\* exclusive lock for S and finds no entry starts its own discovery round-trip
FailedDiscoveryNotCached ==
    [][\A p \in Procs :
          /\ (task[p].pc = "discover" /\ task'[p].pc = "done"
                /\ result'[p].kind # "tools" /\ result'[p].kind # "grouped")
             => /\ result'[p].kind = "ConnectionError"
                /\ result'[p].failed = {task[p].server}
                /\ tools_cache' = tools_cache
                /\ ~tools_cache'[task[p].server].present
                /\ rounds' = rounds /\ disc' = disc
                /\ cache_lock'.w_state = Cardinality(Writers')
                /\ cache_lock.write_waiters # <<>>
                     => task'[Head(cache_lock.write_waiters)].pc = "w_held"
                /\ cache_lock.write_waiters = <<>> => cache_lock'.w_state = 0
          /\ (IsLookup(task[p]) /\ task[p].pc = "w_held" /\ StepOf(p)
                /\ ~tools_cache[task[p].server].present)
             => task'[p].pc = "discover" /\ tools_cache' = tools_cache
      ]_vars

\* one caller's discovery of a server failed; the other caller, which looked the
\* same server up, made its own round-trip and its catalog is the cached one
FailedDiscoveryWitness ==
    \E p, q \in Procs :
        /\ p # q
        /\ task[p].op = "get_tools" /\ task[p].pc = "done"
        /\ result[p].kind = "ConnectionError"
        /\ task[q].op = "get_tools" /\ task[q].server = task[p].server
        /\ task[q].pc = "done" /\ task[q].via = "discovery"
        /\ task[q].fresh /\ task[p].fresh
        /\ tools_cache[task[q].server] = task[q].tools_dict

\* C25: when invalidate_cache(S) or invalidate_cache() has returned, the cache
\* holds no catalog of an affected server that was obtained from that server's
\* Client before the Client's own invalidate_cache() completed
InvalidateLeavesNoStale ==
    \A p \in Procs :
        (task[p].op = "invalidate_cache" /\ task[p].pc = "done"
            /\ result[p].kind = "ok")
        => \A s \in InvalidateTargets(task[p].server) :
              tools_cache[s].present => tools_cache[s].round > task[p].cmark[s]

\* a close() has returned and no connect() has been issued since: closed records
\* that a close() of the caller has returned, reopened that the caller has issued a
\* connect() after the last return of a close()
Closed ==
    /\ \E p \in Procs : task[p].closed
    /\ \A q \in Procs : ~task[q].reopened

GeneratedBindingsConsistent ==
    \A p \in Procs :
        \A f \in result[p].stubs : f[1] \in Range(result[p].declared)

====
